---- MODULE Spec2Model ----
(***************************************************************************)
(* Model of the numerical kernel of fastGHQuad (src/src/lib.cpp).          *)
(*                                                                         *)
(* Every operation of the library is a synchronous call without persistent *)
(* state, so an action of the model is one whole call: it draws the inputs *)
(* (and the outcomes that the code does not decide: the status flag of the *)
(* LAPACK solver, the effect of an undefined scalar delete) and records    *)
(* what the call did: result, allocations, buffers still live at return,   *)
(* the matrix handed to the solver, accesses outside an array.             *)
(*                                                                         *)
(* Arrays are indexed from 0 as in the source.  An array is a record       *)
(*   len : the allocated (or supplied) number of elements,                 *)
(*   m   : the elements written so far (a function on the written indices),*)
(*   oob : the indices accessed outside 0..len-1.                          *)
(* Doubles that the code computes by sqrt, by the solver, or by log/exp    *)
(* are symbolic terms (tuples headed by a string); the doubles that the    *)
(* code computes by integer-valued arithmetic are integers; the entries of *)
(* the companion matrix are fractions <<num, den>>.                        *)
(***************************************************************************)
EXTENDS Integers, Sequences, FiniteSets, TLC

VARIABLES op, argN, argC, argX, argNs, ret, status, returned, heap, solver

vars == <<op, argN, argC, argX, argNs, ret, status, returned, heap, solver>>

(***************************************************************************)
(* Bounds of the model.                                                    *)
(***************************************************************************)
MaxN == 5          \* largest quadrature order / polynomial degree of a call
MaxDeg == 3        \* largest degree of a polynomial passed to findPolyRoots
MaxLen == 2        \* largest length of an argument vector of evalHermitePoly
MaxOrder == 3      \* largest Hermite order in the n vector of evalHermitePoly

XVals == {-1, 0, 1}        \* locations x (integer-valued doubles)
CoefVals == {-1, 0, 1, 2}  \* polynomial coefficients (integer-valued doubles)

(***************************************************************************)
(* Arrays.                                                                 *)
(***************************************************************************)
NoElems == [k \in {} |-> 0]

\* new T[len]: len elements, none of them written yet
NewArray(len) == [len |-> len, m |-> NoElems, oob |-> {}]

\* a vector constructed with a fill value (NumericVector v(len, 0.0))
FilledArray(len, v) == [len |-> len, m |-> [k \in 0..(len-1) |-> v], oob |-> {}]

\* a vector holding the given elements
ArrayOf(f) == [len |-> Cardinality(DOMAIN f), m |-> f, oob |-> {}]

\* a[k] = v
Store(a, k, v) ==
    IF k \in 0..(a.len-1)
    THEN [a EXCEPT !.m = (k :> v) @@ a.m]
    ELSE [a EXCEPT !.oob = @ \cup {k}]

\* the access a[k] as an rvalue: a read outside the array is recorded
Touch(a, k) ==
    IF k \in 0..(a.len-1) THEN a ELSE [a EXCEPT !.oob = @ \cup {k}]

\* the value of a[k]; no reachable call reads an element it has not written
Load(a, k) == IF k \in DOMAIN a.m THEN a.m[k] ELSE 0

\* the accesses outside an array, tagged with the array's name
Oob(name, a) == {<<name, k>> : k \in a.oob}

(***************************************************************************)
(* The heap of one call: the buffers allocated (in order), the scratch     *)
(* buffers not yet released, and the accesses outside an array.            *)
(***************************************************************************)
EmptyHeap == [allocs |-> <<>>, live |-> {}, oob |-> {}]

\* new T[..] of a scratch buffer
New(H, name) == [H EXCEPT !.allocs = Append(@, name), !.live = @ \cup {name}]

\* construction of a result vector (owned by the caller's runtime)
NewResult(H, name) == [H EXCEPT !.allocs = Append(@, name)]

\* delete[] p
DeleteArray(H, name) == [H EXCEPT !.live = @ \ {name}]

\* delete p, where p came from new T[..]: undefined behaviour; df tells
\* whether the build's scalar delete releases the block
DeleteScalar(H, name, df) == IF df THEN [H EXCEPT !.live = @ \ {name}] ELSE H

Note(H, s) == [H EXCEPT !.oob = @ \cup s]

NoSolver == [calls |-> 0, input |-> <<>>, info |-> 0]

(***************************************************************************)
(* buildHermiteJacobi.  The state of a loop is the record of the variables *)
(* the loop changes (its counter and the arrays it writes).                *)
(***************************************************************************)
\* the double sqrt(a/b)
Sqrt(a, b) == <<"sqrt", a, b>>

\* for (i=0; i<n; i++) D[i] = 0
RECURSIVE BuildDiagonal(_, _)
BuildDiagonal(s, n) ==
    IF s.i < n
    THEN BuildDiagonal([i |-> s.i + 1, D |-> Store(s.D, s.i, 0)], n)
    ELSE s.D

RECURSIVE BuildSubDiagonalOffByOne(_, _)
BuildSubDiagonalOffByOne(s, n) ==
    IF s.i < n
    THEN BuildSubDiagonalOffByOne(
             [i |-> s.i + 1, E |-> Store(s.E, s.i, Sqrt(s.i + 1, 2))], n)
    ELSE s.E

\* for (i=0; i<n-1; i++) E[i] = sqrt((i+1.0)/2)
RECURSIVE BuildSubDiagonal(_, _)
BuildSubDiagonal(s, n) ==
    IF s.i < n-1
    THEN BuildSubDiagonal(
             [i |-> s.i + 1, E |-> Store(s.E, s.i, Sqrt(s.i + 1, 2))], n)
    ELSE s.E

buildHermiteJacobi(n, D, E) ==
    [D |-> BuildDiagonal([i |-> 0, D |-> D], n),
     E |-> BuildSubDiagonal([i |-> 0, E |-> E], n)]

(***************************************************************************)
(* hermitePolyCoef.  The workspace is long; its values stay far below the  *)
(* width of long for the orders of the model.                              *)
(***************************************************************************)
\* for (i=0; i<(n+1)*(n+1); i++) work[i] = 0
RECURSIVE ZeroWork(_, _)
ZeroWork(s, n) ==
    IF s.i < (n+1)*(n+1)
    THEN ZeroWork([i |-> s.i + 1, work |-> Store(s.work, s.i, 0)], n)
    ELSE s.work

\* for (j=1; j<i+1; j++) work[i+j*(n+1)] = 2*work[(i-1)+(j-1)*(n+1)]
\*                                         - 2*(i-1)*work[(i-2)+j*(n+1)]
RECURSIVE CoefInner(_, _, _)
CoefInner(s, i, n) ==
    IF s.j < i+1
    THEN LET src1 == (i-1) + (s.j-1)*(n+1)
             src2 == (i-2) + s.j*(n+1)
             w == Touch(Touch(s.work, src1), src2)
         IN  CoefInner(
                 [j |-> s.j + 1,
                  work |-> Store(w, i + s.j*(n+1),
                                 2*Load(w, src1) - 2*(i-1)*Load(w, src2))],
                 i, n)
    ELSE s.work

RECURSIVE CoefRecursionWrongFactor(_, _)
CoefRecursionWrongFactor(s, n) ==
    IF s.i < n+1
    THEN LET w == Touch(s.work, s.i - 2)
             w0 == Store(w, s.i, -2*s.i*Load(w, s.i - 2))
         IN  CoefRecursionWrongFactor(
                 [i |-> s.i + 1,
                  work |-> CoefInner([j |-> 1, work |-> w0], s.i, n)], n)
    ELSE s.work

\* for (i=2; i<n+1; i++) { work[i] = -2*(i-1)*work[i-2]; inner loop }
RECURSIVE CoefRecursion(_, _)
CoefRecursion(s, n) ==
    IF s.i < n+1
    THEN LET w == Touch(s.work, s.i - 2)
             w0 == Store(w, s.i, -2*(s.i - 1)*Load(w, s.i - 2))
         IN  CoefRecursion(
                 [i |-> s.i + 1,
                  work |-> CoefInner([j |-> 1, work |-> w0], s.i, n)], n)
    ELSE s.work

\* for (j=0; j<n+1; j++) c[j] = (double) work[n+j*(n+1)]
RECURSIVE ExtractCoef(_, _)
ExtractCoef(s, n) ==
    IF s.j < n+1
    THEN LET src == n + s.j*(n+1)
         IN  ExtractCoef(
                 [j |-> s.j + 1,
                  work |-> Touch(s.work, src),
                  c |-> Store(s.c, s.j, Load(s.work, src))], n)
    ELSE s

\* hermitePolyCoef(int n, double* c), n >= 0; H is the heap of the call
hermitePolyCoef(n, c, df, H) ==
    LET H1 == New(H, "hermitePolyCoef.work")
        work0 == ZeroWork([i |-> 0, work |-> NewArray((n+1)*(n+1))], n)
    IN  IF n = 0
        THEN LET c1 == Store(c, 0, 1)
             IN  [c |-> c1,
                  heap |-> Note(H1, Oob("work", work0) \cup Oob("c", c1))]
        ELSE IF n = 1
        THEN LET c1 == Store(Store(c, 0, 0), 1, 2)
             IN  [c |-> c1,
                  heap |-> Note(H1, Oob("work", work0) \cup Oob("c", c1))]
        ELSE LET work1 == Store(Store(Store(work0, 0, 1), 1, 0), 1 + 1*(n+1), 2)
                 work2 == CoefRecursion([i |-> 2, work |-> work1], n)
                 e == ExtractCoef([j |-> 0, work |-> work2, c |-> c], n)
             IN  [c |-> e.c,
                  heap |-> Note(DeleteScalar(H1, "hermitePolyCoef.work", df),
                                Oob("work", e.work) \cup Oob("c", e.c))]

\* SEXP hermitePolyCoef(SEXP nR)
hermitePolyCoefR(n, df) ==
    LET H0 == NewResult(EmptyHeap, "coef")
        r == hermitePolyCoef(n, FilledArray(n+1, 0), df, H0)
    IN  [coef |-> r.c, heap |-> r.heap]

(***************************************************************************)
(* hermitePoly, evalHermitePoly                                            *)
(***************************************************************************)
\* for (i=2; i<=n; i++) { hn = 2*x*hnm1 - 2*(i-1)*hnm2; hnm2 = hnm1; hnm1 = hn }
RECURSIVE hermitePolyLoop(_, _, _)
hermitePolyLoop(s, x, n) ==
    IF s.i <= n
    THEN LET hn == 2*x*s.hnm1 - 2*(s.i - 1)*s.hnm2
         IN  hermitePolyLoop(
                 [i |-> s.i + 1, hn |-> hn, hnm2 |-> s.hnm1, hnm1 |-> hn], x, n)
    ELSE s.hn

\* double hermitePoly(double x, int n); hn is declared without a value, so
\* for n < 0, where the loop does not run, the result is whatever hn holds (g)
hermitePoly(x, n, g) ==
    IF n = 0 THEN 1
    ELSE IF n = 1 THEN 2*x
    ELSE hermitePolyLoop([i |-> 2, hn |-> g, hnm2 |-> 1, hnm1 |-> 2*x], x, n)

\* the value read by a[k]; g is what a read outside the array finds there
Read(a, k, g) == IF k \in DOMAIN a.m THEN a.m[k] ELSE g

\* for (i=0; i<x.size(); i++) h[i] = hermitePoly(x[i], n[i])
RECURSIVE EvalBoth(_, _)
EvalBoth(s, g) ==
    IF s.i < s.x.len
    THEN EvalBoth(
             [i |-> s.i + 1, x |-> Touch(s.x, s.i), n |-> Touch(s.n, s.i),
              h |-> Store(s.h, s.i,
                          hermitePoly(Read(s.x, s.i, g.x), Read(s.n, s.i, g.n), g.hn))],
             g)
    ELSE s

\* for (i=0; i<x.size(); i++) h[i] = hermitePoly(x[i], n[0])
RECURSIVE EvalOverX(_, _)
EvalOverX(s, g) ==
    IF s.i < s.x.len
    THEN EvalOverX(
             [i |-> s.i + 1, x |-> Touch(s.x, s.i), n |-> Touch(s.n, 0),
              h |-> Store(s.h, s.i,
                          hermitePoly(Read(s.x, s.i, g.x), Read(s.n, 0, g.n), g.hn))],
             g)
    ELSE s

\* for (i=0; i<n.size(); i++) h[i] = hermitePoly(x[0], n[i])
RECURSIVE EvalOverN(_, _)
EvalOverN(s, g) ==
    IF s.i < s.n.len
    THEN EvalOverN(
             [i |-> s.i + 1, x |-> Touch(s.x, 0), n |-> Touch(s.n, s.i),
              h |-> Store(s.h, s.i,
                          hermitePoly(Read(s.x, 0, g.x), Read(s.n, s.i, g.n), g.hn))],
             g)
    ELSE s

\* SEXP evalHermitePoly(SEXP xR, SEXP nR); g.x and g.n are the values that a
\* read outside x and outside n finds, g.hn the value of an unassigned hn
evalHermitePoly(x, n, g) ==
    LET H0 == NewResult(EmptyHeap, "h")
        e == IF n.len = x.len
             THEN EvalBoth([i |-> 0, x |-> x, n |-> n,
                            h |-> FilledArray(x.len, 0)], g)
             ELSE IF x.len > n.len
             THEN EvalOverX([i |-> 0, x |-> x, n |-> n,
                             h |-> FilledArray(x.len, 0)], g)
             ELSE EvalOverN([i |-> 0, x |-> x, n |-> n,
                             h |-> FilledArray(n.len, 0)], g)
    IN  [h |-> e.h,
         heap |-> Note(H0, Oob("x", e.x) \cup Oob("n", e.n) \cup Oob("h", e.h))]

(***************************************************************************)
(* Doubles of the companion matrix: the fraction <<num, den>> in lowest    *)
(* terms with den > 0, and the IEEE results of a division by zero:         *)
(* <<1, 0>> is +Inf, <<-1, 0>> is -Inf, <<0, 0>> is NaN.                   *)
(***************************************************************************)
Abs(a) == IF a < 0 THEN -a ELSE a

RECURSIVE Gcd(_, _)
Gcd(a, b) == IF b = 0 THEN a ELSE Gcd(b, a % b)

Dbl(k) == <<k, 1>>

\* the double a/b of two integer-valued doubles
Div(a, b) ==
    IF b = 0
    THEN (IF a > 0 THEN <<1, 0>> ELSE IF a < 0 THEN <<-1, 0>> ELSE <<0, 0>>)
    ELSE LET g == Gcd(Abs(a), Abs(b))
             sgn == IF b < 0 THEN -1 ELSE 1
         IN  <<(sgn * a) \div g, Abs(b) \div g>>

IsFinite(d) == d[2] # 0

(***************************************************************************)
(* The LAPACK solvers.  The library is not part of the sources; a call is  *)
(* modelled by its documented effect on its arguments.  info is the status *)
(* flag the solver returns: 0 on success, k > 0 when the iteration did not *)
(* converge.                                                               *)
(***************************************************************************)
\* dstev('V', n, D, E, Z, n, WORK, INFO): D receives the eigenvalues and
\* column k of Z (elements k*n .. k*n+n-1) the k-th unit eigenvector; E is
\* destroyed.  Without convergence the contents are not eigenpairs.
dstev(n, D, E, Z, info) ==
    LET what == IF info = 0 THEN "eigenvalue" ELSE "unconverged"
        vec == IF info = 0 THEN "eigenvector" ELSE "unconverged"
    IN  [D |-> [D EXCEPT !.m = [k \in 0..(n-1) |-> <<what, k>>]],
         E |-> [E EXCEPT !.m = [k \in DOMAIN E.m |-> <<"destroyed", k>>]],
         Z |-> [Z EXCEPT !.m = [k \in 0..(n*n-1) |->
                                   <<vec, k \div n, "component", k % n>>]]]

\* dgeev('N', 'N', n, C, n, WR, WI, ..., INFO): WR receives the real parts
\* of the eigenvalues; with info > 0 only elements info+1..n (from 1) have
\* converged and are set.  C is overwritten.
dgeev(n, C, WR, info) ==
    [C |-> [C EXCEPT !.m = [k \in DOMAIN C.m |-> <<"destroyed", k>>]],
     WR |-> [WR EXCEPT !.m = [k \in info..(n-1) |-> <<"Re eigenvalue", k>>]
                              @@ WR.m]]

(***************************************************************************)
(* quadInfoGolubWelsch, gaussHermiteData                                   *)
(***************************************************************************)
\* the double mu0*z*z
WeightOf(mu0, z) == <<"times", mu0, z, z>>

\* for (i=0; i<n; i++) { x[i] = D[i]; w[i] = mu0*Z[i*n]*Z[i*n] }
RECURSIVE SetupNodesWeights(_, _, _)
SetupNodesWeights(s, n, mu0) ==
    IF s.i < n
    THEN SetupNodesWeights(
             [i |-> s.i + 1,
              D |-> Touch(s.D, s.i),
              Z |-> Touch(s.Z, s.i * n),
              x |-> Store(s.x, s.i, Load(s.D, s.i)),
              w |-> Store(s.w, s.i, WeightOf(mu0, Load(s.Z, s.i * n)))],
             n, mu0)
    ELSE s

\* new T[len] with a negative len throws std::bad_array_new_length
NewThrows(len) == len < 0

\* quadInfoGolubWelsch(n, D, E, mu0, x, w); H is the heap of the call
quadInfoGolubWelsch(n, D, E, mu0, x, w, info, df, H) ==
    IF NewThrows(2*n - 2)
    THEN [x |-> x, w |-> w, heap |-> H, solver |-> NoSolver,
          status |-> "bad_array_new_length"]
    ELSE
    LET H1 == New(H, "WORK")
        H2 == New(H1, "Z")
        e == dstev(n, D, E, NewArray(n*n), info)
        s == SetupNodesWeights(
                 [i |-> 0, D |-> e.D, Z |-> e.Z, x |-> x, w |-> w], n, mu0)
        H3 == DeleteScalar(DeleteScalar(H2, "WORK", df), "Z", df)
    IN  [x |-> s.x, w |-> s.w,
         heap |-> Note(H3, Oob("D", s.D) \cup Oob("Z", s.Z)
                           \cup Oob("x", s.x) \cup Oob("w", s.w)),
         solver |-> [calls |-> 1, input |-> [D |-> D, E |-> E], info |-> info],
         status |-> "ok"]

\* int gaussHermiteData(int n, double* x, double* w)
gaussHermiteData(n, x, w, info, df, H) ==
    IF NewThrows(n)
    THEN [x |-> x, w |-> w, heap |-> H, solver |-> NoSolver,
          status |-> "bad_array_new_length"]
    ELSE
    LET H1 == New(New(H, "D"), "E")
        b == buildHermiteJacobi(n, NewArray(n), NewArray(n))
        q == quadInfoGolubWelsch(n, b.D, b.E, Sqrt("PI", 1), x, w, info, df,
                                 Note(H1, Oob("D", b.D) \cup Oob("E", b.E)))
    IN  IF q.status # "ok"
        THEN q
        ELSE [q EXCEPT !.heap =
                  DeleteScalar(DeleteScalar(q.heap, "D", df), "E", df)]

\* SEXP gaussHermiteData(SEXP nR), n >= 0
gaussHermiteDataR(n, info, df) ==
    LET H0 == NewResult(NewResult(EmptyHeap, "x"), "w")
    IN  gaussHermiteData(n, FilledArray(n, 0), FilledArray(n, 0), info, df, H0)

(***************************************************************************)
(* findPolyRoots                                                           *)
(***************************************************************************)
\* for (i=0; i<n*n; i++) C[i] = 0
RECURSIVE ZeroCompanion(_, _)
ZeroCompanion(s, n) ==
    IF s.i < n*n
    THEN ZeroCompanion([i |-> s.i + 1, C |-> Store(s.C, s.i, Dbl(0))], n)
    ELSE s.C

\* for (i=1; i<n; i++) C[i+n*(i-1)] = 1
RECURSIVE AddDiagonal(_, _)
AddDiagonal(s, n) ==
    IF s.i < n
    THEN AddDiagonal(
             [i |-> s.i + 1, C |-> Store(s.C, s.i + n*(s.i - 1), Dbl(1))], n)
    ELSE s.C

RECURSIVE AddCoefficientsRowMajor(_, _)
AddCoefficientsRowMajor(s, n) ==
    IF s.i < n
    THEN AddCoefficientsRowMajor(
             [i |-> s.i + 1,
              c |-> Touch(Touch(s.c, s.i), n),
              C |-> Store(s.C, s.i*n + (n-1),
                          Div(-Load(s.c, s.i), Load(s.c, n)))], n)
    ELSE s

\* for (i=0; i<n; i++) C[i+n*(n-1)] = -c[i]/c[n]
RECURSIVE AddCoefficients(_, _)
AddCoefficients(s, n) ==
    IF s.i < n
    THEN AddCoefficients(
             [i |-> s.i + 1,
              c |-> Touch(Touch(s.c, s.i), n),
              C |-> Store(s.C, s.i + n*(n-1),
                          Div(-Load(s.c, s.i), Load(s.c, n)))], n)
    ELSE s

\* void findPolyRoots(double* c, int n, double* r), n >= 1; the workspace
\* query and the computation are the two calls of dgeev
findPolyRoots(c, n, r, info, H) ==
    LET H1 == New(H, "C")
        Czero == ZeroCompanion([i |-> 0, C |-> NewArray(n*n)], n)
        Csub == AddDiagonal([i |-> 1, C |-> Czero], n)
        a == AddCoefficients([i |-> 0, c |-> c, C |-> Csub], n)
        H2 == New(H1, "valI")
        H3 == New(H2, "findPolyRoots.work")
        e == dgeev(n, a.C, r, info)
        H4 == DeleteArray(DeleteArray(DeleteArray(H3, "valI"), "C"),
                          "findPolyRoots.work")
    IN  [r |-> e.WR, Czero |-> Czero, Csub |-> Csub,
         heap |-> Note(H4, Oob("C", a.C) \cup Oob("c", a.c) \cup Oob("r", e.WR)),
         solver |-> [calls |-> 2, input |-> a.C, info |-> info]]

\* SEXP findPolyRoots(SEXP cR), c.size() >= 2
findPolyRootsR(c, info) ==
    LET n == c.len
        H0 == NewResult(EmptyHeap, "roots")
    IN  findPolyRoots(c, n-1, FilledArray(n-1, 0), info, H0)

(***************************************************************************)
(* gaussHermiteDataDirect                                                  *)
(***************************************************************************)
\* the double exp((n-1)*log2 + lgamma(n+1) + logsqrtpi - 2*log(n)
\*                - 2*log(abs(hermitePoly(xi, n-1))))
DirectWeight(n, xi) == <<"exp weight", n, <<"abs hermitePoly", xi, n-1>>>>

\* for (i=0; i<n; i++) w[i] = exp(...)
RECURSIVE DirectWeights(_, _)
DirectWeights(s, n) ==
    IF s.i < n
    THEN DirectWeights(
             [i |-> s.i + 1,
              x |-> Touch(s.x, s.i),
              w |-> Store(s.w, s.i, DirectWeight(n, Load(s.x, s.i)))], n)
    ELSE s

\* int gaussHermiteDataDirect(int n, double* x, double* w), n >= 1
gaussHermiteDataDirect(n, x, w, info, df, H) ==
    LET H1 == New(H, "coef")
        hc == hermitePolyCoef(n, NewArray(n+1), df, H1)
        fr == findPolyRoots(hc.c, n, x, info, hc.heap)
        s == DirectWeights([i |-> 0, x |-> fr.r, w |-> w], n)
    IN  [x |-> s.x, w |-> s.w, coef |-> hc.c,
         Czero |-> fr.Czero, Csub |-> fr.Csub,
         heap |-> Note(DeleteScalar(fr.heap, "coef", df),
                       Oob("x", s.x) \cup Oob("w", s.w)),
         solver |-> fr.solver]

(***************************************************************************)
(* Calls.                                                                  *)
(***************************************************************************)
NoArray == NewArray(0)

\* the vectors of length 0..maxlen with elements in vals
Vectors(maxlen, vals) ==
    UNION {{ArrayOf(f) : f \in [0..(len-1) -> vals]} : len \in 0..maxlen}

\* what a read outside a double vector (x), a read outside an int vector
\* (n) and a read of an unassigned double (hn) may find
Garbage == [x : XVals, n : -1..MaxOrder, hn : XVals]

\* the calls of evalHermitePoly that read x[0] or n[0] of an empty vector;
\* in the other calls nothing is read outside a vector, orders are >= 0, and
\* what such reads would find does not matter
ReadsOutside(x, n) == x.len # n.len /\ (x.len = 0 \/ n.len = 0)

NoGarbage == [x |-> 0, n |-> 0, hn |-> 0]

\* the coefficient vectors of the polynomials of degree 1..MaxDeg
PolyCoefs == {c \in Vectors(MaxDeg + 1, CoefVals) : c.len >= 2}

Init ==
    /\ op = "none"
    /\ argN = 0
    /\ argC = NoArray
    /\ argX = NoArray
    /\ argNs = NoArray
    /\ ret = <<>>
    /\ status = "ok"
    /\ returned = FALSE
    /\ heap = EmptyHeap
    /\ solver = NoSolver

\* No call has been made yet.  The library keeps no state between calls
\* (it has no global or static object), so a behaviour of the model is one
\* call from the initial state.
Idle == op = "none"

\* buildHermiteJacobi(n, D, E) on caller-supplied D (n elements) and E
\* (n-1 elements as documented, or n elements as gaussHermiteData supplies)
Call_buildHermiteJacobi ==
    \E n \in 1..MaxN, elen \in {0, 1} :
        LET r == buildHermiteJacobi(n, NewArray(n), NewArray(n-1+elen))
        IN  /\ Idle
            /\ op' = "buildHermiteJacobi"
            /\ argN' = n
            /\ ret' = r
            /\ heap' = Note(EmptyHeap, Oob("D", r.D) \cup Oob("E", r.E))
            /\ status' = "ok"
            /\ returned' = TRUE
            /\ solver' = NoSolver
            /\ argC' = NoArray /\ argX' = NoArray /\ argNs' = NoArray

Call_hermitePolyCoef ==
    \E n \in 0..MaxN, df \in BOOLEAN :
        LET r == hermitePolyCoefR(n, df)
        IN  /\ Idle
            /\ op' = "hermitePolyCoef"
            /\ argN' = n
            /\ ret' = [coef |-> r.coef]
            /\ heap' = r.heap
            /\ status' = "ok"
            /\ returned' = TRUE
            /\ solver' = NoSolver
            /\ argC' = NoArray /\ argX' = NoArray /\ argNs' = NoArray

\* evalHermitePoly(x, n) on vectors of length 0..MaxLen; the orders passed
\* are degrees of Hermite polynomials, so they are not negative
Call_evalHermitePoly ==
    \E x \in Vectors(MaxLen, XVals), n \in Vectors(MaxLen, 0..MaxOrder) :
      \E g \in (IF ReadsOutside(x, n) THEN Garbage ELSE {NoGarbage}) :
        LET r == evalHermitePoly(x, n, g)
        IN  /\ Idle
            /\ op' = "evalHermitePoly"
            /\ argX' = x
            /\ argNs' = n
            /\ ret' = [h |-> r.h]
            /\ heap' = r.heap
            /\ status' = "ok"
            /\ returned' = TRUE
            /\ solver' = NoSolver
            /\ argN' = 0 /\ argC' = NoArray

\* gaussHermiteData(n) for n >= 0 (a negative n fails in the constructor of
\* the result vector, inside the binding library); info is the status flag
\* that dstev returns
Call_gaussHermiteData ==
    \E n \in 0..MaxN, df \in BOOLEAN :
      \E info \in 0..(IF n > 1 THEN n-1 ELSE 0) :
        LET r == gaussHermiteDataR(n, info, df)
        IN  /\ Idle
            /\ op' = "gaussHermiteData"
            /\ argN' = n
            /\ ret' = [x |-> r.x, w |-> r.w]
            /\ heap' = r.heap
            /\ status' = r.status
            /\ returned' = (r.status = "ok")
            /\ solver' = r.solver
            /\ argC' = NoArray /\ argX' = NoArray /\ argNs' = NoArray

\* findPolyRoots(c) for a polynomial of degree 1..MaxDeg; info is the status
\* flag that dgeev returns
Call_findPolyRoots ==
    \E c \in PolyCoefs :
      \E info \in 0..(c.len - 1) :
        LET r == findPolyRootsR(c, info)
        IN  /\ Idle
            /\ op' = "findPolyRoots"
            /\ argN' = c.len - 1
            /\ argC' = c
            /\ ret' = [roots |-> r.r, Czero |-> r.Czero, Csub |-> r.Csub]
            /\ heap' = r.heap
            /\ status' = "ok"
            /\ returned' = TRUE
            /\ solver' = r.solver
            /\ argX' = NoArray /\ argNs' = NoArray

\* gaussHermiteDataDirect(n, x, w) on caller-supplied x and w (n elements,
\* zero-filled as the vectors of the other entry points are)
Call_gaussHermiteDataDirect ==
    \E n \in 1..MaxN, df \in BOOLEAN :
      \E info \in 0..n :
        LET r == gaussHermiteDataDirect(n, FilledArray(n, 0),
                                        FilledArray(n, 0), info, df, EmptyHeap)
        IN  /\ Idle
            /\ op' = "gaussHermiteDataDirect"
            /\ argN' = n
            /\ ret' = [x |-> r.x, w |-> r.w, coef |-> r.coef,
                       Czero |-> r.Czero, Csub |-> r.Csub]
            /\ heap' = r.heap
            /\ status' = "ok"
            /\ returned' = TRUE
            /\ solver' = r.solver
            /\ argC' = NoArray /\ argX' = NoArray /\ argNs' = NoArray

Next ==
    \/ Call_buildHermiteJacobi
    \/ Call_gaussHermiteData
    \/ Call_findPolyRoots
    \/ Call_hermitePolyCoef
    \/ Call_evalHermitePoly
    \/ Call_gaussHermiteDataDirect

Spec == Init /\ [][Next]_vars

(***************************************************************************)
(* Properties.                                                             *)
(***************************************************************************)

\* the coefficients (of x^0 .. x^k) of the Hermite polynomial H_k:
\* H_0 = 1, H_1 = 2x, H_{k}(x) = 2x*H_{k-1}(x) - 2(k-1)*H_{k-2}(x)
RECURSIVE HermiteH(_)
HermiteH(k) ==
    IF k = 0 THEN <<1>>
    ELSE IF k = 1 THEN <<0, 2>>
    ELSE LET a == HermiteH(k-1)
             b == HermiteH(k-2)
         IN  [j \in 1..(k+1) |->
                 2 * (IF j >= 2 THEN a[j-1] ELSE 0)
                 - 2 * (k-1) * (IF j <= k-1 THEN b[j] ELSE 0)]

RECURSIVE Power(_, _)
Power(x, k) == IF k = 0 THEN 1 ELSE x * Power(x, k-1)

RECURSIVE SumTerms(_, _, _)
SumTerms(p, x, j) ==
    IF j > Len(p) THEN 0 ELSE p[j] * Power(x, j-1) + SumTerms(p, x, j+1)

\* H_k(x), from the coefficients
HermiteValue(k, x) == SumTerms(HermiteH(k), x, 1)

\* C1: gaussHermiteData with an order n <= 0 raises InvalidOrderError
\* before it allocates a scratch buffer or a result vector and before it
\* calls the solver.
InvalidOrderRejected ==
    (op = "gaussHermiteData" /\ argN <= 0) =>
        /\ status = "InvalidOrderError"
        /\ heap.allocs = <<>>
        /\ solver.calls = 0

\* C2: findPolyRoots on a polynomial whose leading coefficient is zero
\* reports DegenerateLeadingCoefficientError, hands no matrix with a
\* quotient by zero to the solver and returns no roots.
DegenerateLeadingCoefficientRejected ==
    (op = "findPolyRoots" /\ argC.m[argN] = 0) =>
        /\ status = "DegenerateLeadingCoefficientError"
        /\ ~returned
        /\ \/ solver.calls = 0
           \/ \A k \in DOMAIN solver.input.m : IsFinite(solver.input.m[k])

\* C3: when the eigensolver reports non-convergence, the operation fails
\* with EigenConvergenceError and returns no result.
NonConvergenceSurfaced ==
    (solver.calls > 0 /\ solver.info # 0) =>
        /\ status = "EigenConvergenceError"
        /\ ~returned

\* C4: when an operation is over, no scratch buffer that it allocated is
\* still live.
ScratchReleasedAtReturn == heap.live = {}

\* C5: hermitePolyCoef(n) yields n+1 coefficients, the j-th being the
\* coefficient of x^j in H_n; for n = 0, 1, 2 they are [1], [0, 2] and
\* [-2, 0, 4].
HermiteCoefficientsCorrect ==
    (op \in {"hermitePolyCoef", "gaussHermiteDataDirect"}) =>
        /\ ret.coef.len = argN + 1
        /\ DOMAIN ret.coef.m = 0..argN
        /\ \A j \in 0..argN : ret.coef.m[j] = HermiteH(argN)[j+1]
        /\ argN = 0 => ret.coef.m = (0 :> 1)
        /\ argN = 1 => ret.coef.m = (0 :> 0) @@ (1 :> 2)
        /\ argN = 2 => ret.coef.m = (0 :> -2) @@ (1 :> 0) @@ (2 :> 4)

HermiteCoefficientsWitness ==
    /\ op = "hermitePolyCoef"
    /\ argN = 4
    /\ ret.coef.m = (0 :> 12) @@ (1 :> 0) @@ (2 :> -48) @@ (3 :> 0) @@ (4 :> 16)

\* C6: evalHermitePoly has one result per element of the longer argument;
\* with equal lengths result i is H_{n[i]}(x[i]); otherwise every result is
\* computed with one scalar for the shorter argument (its element, when it
\* has one), repeated for every element of the longer argument.
EvalHermitePolyBroadcasts ==
    (op = "evalHermitePoly") =>
        LET x == argX
            n == argNs
            h == ret.h
        IN  /\ h.len = (IF x.len >= n.len THEN x.len ELSE n.len)
            /\ DOMAIN h.m = 0..(h.len - 1)
            /\ x.len = n.len =>
                   \A i \in 0..(h.len - 1) :
                       h.m[i] = HermiteValue(n.m[i], x.m[i])
            /\ x.len > n.len =>
                   \E k \in (IF n.len > 0 THEN {n.m[0]} ELSE 0..MaxOrder) :
                       \A i \in 0..(h.len - 1) :
                           h.m[i] = HermiteValue(k, x.m[i])
            /\ x.len < n.len =>
                   \E v \in (IF x.len > 0 THEN {x.m[0]} ELSE XVals) :
                       \A i \in 0..(h.len - 1) :
                           h.m[i] = HermiteValue(n.m[i], v)

\* the broadcast of evalHermitePoly when neither argument is empty
BroadcastOfNonEmpty ==
    (op = "evalHermitePoly" /\ argX.len > 0 /\ argNs.len > 0) =>
        EvalHermitePolyBroadcasts

\* apart from evalHermitePoly on an empty argument, no operation accesses
\* an element outside an array
OtherAccessesInBounds ==
    (op = "evalHermitePoly" => argX.len > 0 /\ argNs.len > 0) =>
        heap.oob = {}

\* C8: buildHermiteJacobi(n), n >= 1, writes diagonal[i] = 0 for
\* i = 0..n-1 and offDiagonal[i] = sqrt((i+1)/2) for i = 0..n-2 and no
\* other element.
JacobiEntries ==
    (op = "buildHermiteJacobi") =>
        /\ DOMAIN ret.D.m = 0..(argN - 1)
        /\ \A i \in 0..(argN - 1) : ret.D.m[i] = 0
        /\ DOMAIN ret.E.m = 0..(argN - 2)
        /\ \A i \in 0..(argN - 2) : ret.E.m[i] = <<"sqrt", i+1, 2>>
        /\ ret.D.oob = {} /\ ret.E.oob = {}
        /\ argN = 1 => ret.E.m = NoElems

JacobiWitness ==
    /\ op = "buildHermiteJacobi"
    /\ argN = 3
    /\ ret.E.len = 3
    /\ ret.E.m = (0 :> <<"sqrt", 1, 2>>) @@ (1 :> <<"sqrt", 2, 2>>)

\* the coefficient vector of the polynomial whose roots are sought
RootFinderCoefficients ==
    IF op = "findPolyRoots" THEN argC ELSE ret.coef

\* C9: for a polynomial of degree n >= 1 with a nonzero leading
\* coefficient, the matrix handed to the solver is the n-by-n companion
\* matrix (element (i, j) at offset i + n*j): 1 at (i, i-1), -c[i]/c[n] at
\* (i, n-1), 0 elsewhere; and no element written by the sub-diagonal step is
\* changed by the coefficient step.
CompanionMatrixHanded ==
    (op \in {"findPolyRoots", "gaussHermiteDataDirect"}
        /\ RootFinderCoefficients.m[argN] # 0) =>
        LET n == argN
            c == RootFinderCoefficients.m
            C == solver.input
        IN  /\ C.len = n*n
            /\ DOMAIN C.m = 0..(n*n - 1)
            /\ C.oob = {}
            /\ \A i \in 0..(n-1), j \in 0..(n-1) :
                   LET e == C.m[i + n*j]
                   IN  IF j = n-1
                       THEN e[2] > 0 /\ e[1] * c[n] = -c[i] * e[2]
                       ELSE IF j = i-1 THEN e = <<1, 1>> ELSE e = <<0, 1>>
            /\ \A k \in DOMAIN C.m :
                   ret.Csub.m[k] # ret.Czero.m[k] => C.m[k] = ret.Csub.m[k]

CompanionMatrixWitness ==
    /\ op = "findPolyRoots"
    /\ argC.m = (0 :> 1) @@ (1 :> -1) @@ (2 :> 0) @@ (3 :> 2)
    /\ solver.input.m[6] = <<-1, 2>>
    /\ solver.input.m[7] = <<1, 2>>
    /\ solver.input.m[1] = <<1, 1>>
    /\ solver.input.m[5] = <<1, 1>>

\* C10: every element that an operation reads or writes lies inside the
\* array, for every input including argument vectors of length zero.
AccessesInBounds == heap.oob = {}

====
